---- MODULE Spec2Model ----
(***************************************************************************)
(* Model of givenergy_modbus/client/commands.py: the RegisterMap table and *)
(* the CommandBuilder that turns intents into ordered lists of register    *)
(* read/write requests.                                                    *)
(*                                                                         *)
(* Spec     one builder, one call per step, every public method; the state *)
(*          holds the builder's configuration, the last call and what it   *)
(*          returned or raised.  SpecSetters, SpecSlots, SpecModes,        *)
(*          SpecDateTime and SpecRefresh are the same machine restricted   *)
(*          to one group of methods, with wider argument sets.             *)
(* SpecObj  the same builder used by several callers whose calls           *)
(*          interleave at the granularity of list operations; the state    *)
(*          holds the heap of list objects the calls allocate and extend.  *)
(***************************************************************************)
EXTENDS Integers, Sequences, FiniteSets, TLC

VARIABLES
    model,               \* self.model
    main_slave_address,  \* self.main_slave_address
    call,                \* Spec: the last call, [op |-> name, ...arguments]
    result,              \* Spec: what that call gave, [raised, requests]
    heap,                \* SpecObj: list objects in allocation order
    log,                 \* SpecObj: finished calls, [call, raised, ref]
    frames               \* SpecObj: per caller, the call in progress

vars == <<model, main_slave_address, call, result, heap, log, frames>>

---------------------------------------------------------------------------
(* Bounds of the model. *)

\* number_batteries and max_batteries range over 0..MaxBatteries
MaxBatteries == 3
\* additional_holding_registers has at most MaxExtras entries
MaxExtras == 2
\* integer arguments of the validated setters range over
\* -ValMargin .. 100 + ValMargin
ValMargin == 2

\* Python's None: an absent model, slot, time or list
None == [none |-> TRUE]

\* Device models: the members of the Model enumeration, or None
ALL_IN_ONE == [Model |-> "ALL_IN_ONE"]
HYBRID == [Model |-> "HYBRID"]
AC == [Model |-> "AC"]
Models == {None, ALL_IN_ONE, HYBRID, AC}

\* the integers the validated setters are tried with
Vals == (0 - ValMargin) .. (100 + ValMargin)
\* of those, the ones Spec keeps: around every range's end points
ValSamples == {v \in Vals : \E e \in {0, 3, 4, 50, 100} : v - e \in {-1, 0, 1}}

\* datetime.time values: every hour, and minutes on either side of each digit change
Times == [hour : 0..23, minute : {0, 1, 9, 10, 30, 59}]
TimeSamples == {[hour |-> 0, minute |-> 0], [hour |-> 7, minute |-> 5],
                [hour |-> 16, minute |-> 0], [hour |-> 23, minute |-> 59]}
\* TimeSlot values: start before, equal to and after end
SlotTimes == {[hour |-> h, minute |-> m] : h \in {0, 7, 16, 23}, m \in {0, 5, 59}}
TimeSlots == [start : SlotTimes, end : SlotTimes]
StorageSlots == [start : TimeSamples, end : TimeSamples]
SlotSamples == {[start |-> [hour |-> 16, minute |-> 0], end |-> [hour |-> 7, minute |-> 5]],
                [start |-> [hour |-> 0, minute |-> 0], end |-> [hour |-> 0, minute |-> 0]],
                [start |-> [hour |-> 7, minute |-> 5], end |-> [hour |-> 23, minute |-> 59]]}

\* datetime.datetime values
DateTimes == [year : {1999, 2000, 2024}, month : {1, 3, 12}, day : {1, 15, 31},
              hour : {0, 9, 23}, minute : {0, 30, 59}, second : {0, 45, 59}]
DateTimeSamples == [year : {1999, 2024}, month : {3, 12}, day : {15, 31},
                    hour : {0, 9}, minute : {30}, second : {45, 59}]

\* base registers a caller may ask for in additional_holding_registers
ExtraBases == {180, 300}
SeqsUpTo(S, n) == UNION {[1..k -> S] : k \in 0..n}
\* an Optional[list[int]] argument: None, or the list [items |-> <<...>>]
ExtraLists == {None} \cup {[items |-> s] : s \in SeqsUpTo(ExtraBases, MaxExtras)}

---------------------------------------------------------------------------
(* class RegisterMap *)

ENABLE_CHARGE_TARGET == 20
BATTERY_POWER_MODE == 27
SOC_FORCE_ADJUST == 29
CHARGE_SLOT_2_START == 31
CHARGE_SLOT_2_END == 32
SYSTEM_TIME_YEAR == 35
SYSTEM_TIME_MONTH == 36
SYSTEM_TIME_DAY == 37
SYSTEM_TIME_HOUR == 38
SYSTEM_TIME_MINUTE == 39
SYSTEM_TIME_SECOND == 40
DISCHARGE_SLOT_2_START == 44
DISCHARGE_SLOT_2_END == 45
ACTIVE_POWER_RATE == 50
DISCHARGE_SLOT_1_START == 56
DISCHARGE_SLOT_1_END == 57
ENABLE_DISCHARGE == 59
CHARGE_SLOT_1_START == 94
CHARGE_SLOT_1_END == 95
ENABLE_CHARGE == 96
BATTERY_SOC_RESERVE == 110
BATTERY_CHARGE_LIMIT == 111
BATTERY_DISCHARGE_LIMIT == 112
BATTERY_DISCHARGE_MIN_POWER_RESERVE == 114
CHARGE_TARGET_SOC == 116
REBOOT == 163
BATTERY_PAUSE_MODE == 318
BATTERY_PAUSE_SLOT_START == 319
BATTERY_PAUSE_SLOT_END == 320

\* every address the class declares
RegisterMap ==
    {ENABLE_CHARGE_TARGET, BATTERY_POWER_MODE, SOC_FORCE_ADJUST, CHARGE_SLOT_2_START,
     CHARGE_SLOT_2_END, SYSTEM_TIME_YEAR, SYSTEM_TIME_MONTH, SYSTEM_TIME_DAY,
     SYSTEM_TIME_HOUR, SYSTEM_TIME_MINUTE, SYSTEM_TIME_SECOND, DISCHARGE_SLOT_2_START,
     DISCHARGE_SLOT_2_END, ACTIVE_POWER_RATE, DISCHARGE_SLOT_1_START,
     DISCHARGE_SLOT_1_END, ENABLE_DISCHARGE, CHARGE_SLOT_1_START, CHARGE_SLOT_1_END,
     ENABLE_CHARGE, BATTERY_SOC_RESERVE, BATTERY_CHARGE_LIMIT, BATTERY_DISCHARGE_LIMIT,
     BATTERY_DISCHARGE_MIN_POWER_RESERVE, CHARGE_TARGET_SOC, REBOOT, BATTERY_PAUSE_MODE,
     BATTERY_PAUSE_SLOT_START, BATTERY_PAUSE_SLOT_END}

\* getattr(RegisterMap, f'{"DIS" if discharge else ""}CHARGE_SLOT_{idx}_START')
SlotStartRegister(discharge, idx) ==
    IF discharge
    THEN (IF idx = 1 THEN DISCHARGE_SLOT_1_START ELSE DISCHARGE_SLOT_2_START)
    ELSE (IF idx = 1 THEN CHARGE_SLOT_1_START ELSE CHARGE_SLOT_2_START)

\* getattr(RegisterMap, f'{"DIS" if discharge else ""}CHARGE_SLOT_{idx}_END')
SlotEndRegister(discharge, idx) ==
    IF discharge
    THEN (IF idx = 1 THEN DISCHARGE_SLOT_1_END ELSE DISCHARGE_SLOT_2_END)
    ELSE (IF idx = 1 THEN CHARGE_SLOT_1_END ELSE CHARGE_SLOT_2_END)

---------------------------------------------------------------------------
(* Requests, and the two ways a call ends. *)

\* Python's bool is an int: True == 1 and False == 0
True == 1
False == 0

ReadHoldingRegistersRequest(slave_address, base_register, register_count) ==
    [type |-> "ReadHolding", slave_address |-> slave_address,
     base_register |-> base_register, register_count |-> register_count]

ReadInputRegistersRequest(slave_address, base_register, register_count) ==
    [type |-> "ReadInput", slave_address |-> slave_address,
     base_register |-> base_register, register_count |-> register_count]

WriteHoldingRegisterRequest(register, value) ==
    [type |-> "Write", register |-> register, value |-> value]

Return(requests) == [raised |-> "no", requests |-> requests]
ValueError == [raised |-> "ValueError", requests |-> <<>>]
TypeError == [raised |-> "TypeError", requests |-> <<>>]

\* a + b, and a.extend(b), where either operand may have raised instead
Plus(a, b) ==
    IF a.raised # "no" THEN a
    ELSE IF b.raised # "no" THEN b
    ELSE Return(a.requests \o b.requests)

---------------------------------------------------------------------------
(* Value encoders. *)

\* strftime with the minute not padded to two digits
strftime_HM_unpadded(t) ==
    <<t.hour \div 10, t.hour % 10>>
    \o (IF t.minute < 10 THEN <<t.minute>> ELSE <<t.minute \div 10, t.minute % 10>>)

\* t.strftime("%H%M"): two decimal digits of the hour, two of the minute
strftime_HM(t) ==
    <<t.hour \div 10, t.hour % 10, t.minute \div 10, t.minute % 10>>

\* int(s) of a string of decimal digits
RECURSIVE int_str(_)
int_str(s) ==
    IF Len(s) = 0 THEN 0
    ELSE 10 * int_str(SubSeq(s, 1, Len(s) - 1)) + s[Len(s)]

\* int(val): the arguments modelled are Python ints, which int() returns unchanged
int_of(val) == val

\* bool(x) of an Optional[TimeSlot] or Optional[datetime.time]: only None is false
Truthy(x) == x # None

\* bool(x) of an Optional[list]: None and the empty list are false
TruthyList(x) == x # None /\ Len(x.items) > 0

\* TimeSlot.from_repr(start, end): hhmm integers to a slot
from_repr(start, end) ==
    [start |-> [hour |-> start \div 100, minute |-> start % 100],
     end |-> [hour |-> end \div 100, minute |-> end % 100]]

---------------------------------------------------------------------------
(* class CommandBuilder.  self is [model, main_slave_address]. *)

\* __init__ testing the model against ALL_IN_ONE only
CommandBuilder_init_aio_only(m) ==
    [model |-> m,
     main_slave_address |-> IF m = ALL_IN_ONE THEN 17 ELSE 50]

\* __init__: the primary slave address the model decides
CommandBuilder_init(m) ==
    [model |-> m,
     main_slave_address |-> IF m \in {None, ALL_IN_ONE} THEN 17 (* 0x11 *)
                            ELSE 50 (* 0x32 *)]

refresh_additional_holding_registers(self, base_register) ==
    Return(<<ReadHoldingRegistersRequest(self.main_slave_address, base_register, 60)>>)

\* the battery count forced for every model but ALL_IN_ONE
EffectiveBatteries_aio_only(self, complete, number_batteries, max_batteries) ==
    IF complete /\ self.model # ALL_IN_ONE
    THEN max_batteries
    ELSE number_batteries

\* the battery count the loop of refresh_plant_data runs to
EffectiveBatteries(self, complete, number_batteries, max_batteries) ==
    IF complete /\ self.model \notin {None, ALL_IN_ONE}
    THEN max_batteries
    ELSE number_batteries

\* the battery loop counting from 1
BatteryReads_from_one(n) ==
    [k \in 1..n |-> ReadInputRegistersRequest(50 + k, 60, 60)]

\* for i in range(n): requests.append(ReadInputRegistersRequest(0x32 + i, 60, 60))
BatteryReads(n) ==
    [k \in 1..n |-> ReadInputRegistersRequest(50 (* 0x32 *) + (k - 1), 60, 60)]

\* for hr in additional_holding_registers: requests.extend(...)
RECURSIVE ExtraReads(_, _)
ExtraReads(self, hrs) ==
    IF Len(hrs) = 0 THEN <<>>
    ELSE refresh_additional_holding_registers(self, Head(hrs)).requests
         \o ExtraReads(self, Tail(hrs))

\* the three further blocks of a complete refresh
CompleteReads(self) ==
    <<ReadHoldingRegistersRequest(self.main_slave_address, 0, 60),
      ReadHoldingRegistersRequest(self.main_slave_address, 60, 60),
      ReadInputRegistersRequest(self.main_slave_address, 120, 60)>>

refresh_plant_data(self, complete, number_batteries, max_batteries, additional_holding_registers) ==
    LET first == <<ReadInputRegistersRequest(self.main_slave_address, 0, 60)>>
        full == IF complete THEN CompleteReads(self) ELSE <<>>
        n == EffectiveBatteries(self, complete, number_batteries, max_batteries)
        extra == IF TruthyList(additional_holding_registers)
                 THEN ExtraReads(self, additional_holding_registers.items)
                 ELSE <<>>
    IN  Return(first \o full \o BatteryReads(n) \o extra)

disable_charge_target ==
    Return(<<WriteHoldingRegisterRequest(ENABLE_CHARGE_TARGET, False),
             WriteHoldingRegisterRequest(CHARGE_TARGET_SOC, 100)>>)

set_charge_target(target_soc) ==
    IF ~(4 <= target_soc /\ target_soc <= 100) THEN ValueError
    ELSE Return(<<WriteHoldingRegisterRequest(CHARGE_TARGET_SOC, target_soc)>>)

set_enable_charge(enabled) ==
    Return(<<WriteHoldingRegisterRequest(ENABLE_CHARGE, enabled)>>)

set_enable_charge_target(enabled) ==
    Return(<<WriteHoldingRegisterRequest(ENABLE_CHARGE_TARGET, enabled)>>)

set_enable_discharge(enabled) ==
    Return(<<WriteHoldingRegisterRequest(ENABLE_DISCHARGE, enabled)>>)

set_inverter_reboot ==
    Return(<<WriteHoldingRegisterRequest(REBOOT, 100)>>)

\* the trigger written to the register before SOC_FORCE_ADJUST
set_calibrate_battery_soc_wrong_register ==
    Return(<<WriteHoldingRegisterRequest(SOC_FORCE_ADJUST - 1, 1)>>)

set_calibrate_battery_soc ==
    Return(<<WriteHoldingRegisterRequest(SOC_FORCE_ADJUST, 1)>>)

enable_charge == set_enable_charge(True)
disable_charge == set_enable_charge(False)
enable_discharge == set_enable_discharge(True)
disable_discharge == set_enable_discharge(False)

set_discharge_mode_max_power ==
    Return(<<WriteHoldingRegisterRequest(BATTERY_POWER_MODE, 0)>>)

set_discharge_mode_to_match_demand ==
    Return(<<WriteHoldingRegisterRequest(BATTERY_POWER_MODE, 1)>>)

set_battery_soc_reserve(val0) ==
    LET val == int_of(val0)
    IN  IF ~(4 <= val /\ val <= 100) THEN ValueError
        ELSE Return(<<WriteHoldingRegisterRequest(BATTERY_SOC_RESERVE, val)>>)

\* The method has neither self nor @staticmethod: called on the class it passes val
\* on; called on an instance the instance arrives as val and the call is a TypeError.
set_shallow_charge(on_instance, val) ==
    IF on_instance THEN TypeError ELSE set_battery_soc_reserve(val)

\* the charge limit's upper bound taken as exclusive
set_battery_charge_limit_exclusive(val0) ==
    LET val == int_of(val0)
    IN  IF ~(0 <= val /\ val < 50) THEN ValueError
        ELSE Return(<<WriteHoldingRegisterRequest(BATTERY_CHARGE_LIMIT, val)>>)

set_battery_charge_limit(val0) ==
    LET val == int_of(val0)
    IN  IF ~(0 <= val /\ val <= 50) THEN ValueError
        ELSE Return(<<WriteHoldingRegisterRequest(BATTERY_CHARGE_LIMIT, val)>>)

set_battery_discharge_limit(val0) ==
    LET val == int_of(val0)
    IN  IF ~(0 <= val /\ val <= 50) THEN ValueError
        ELSE Return(<<WriteHoldingRegisterRequest(BATTERY_DISCHARGE_LIMIT, val)>>)

set_battery_power_reserve(val0) ==
    LET val == int_of(val0)
    IN  IF ~(4 <= val /\ val <= 100) THEN ValueError
        ELSE Return(<<WriteHoldingRegisterRequest(BATTERY_DISCHARGE_MIN_POWER_RESERVE, val)>>)

set_battery_pause_mode(val) ==
    IF ~(0 <= val /\ val <= 3) THEN ValueError
    ELSE Return(<<WriteHoldingRegisterRequest(BATTERY_PAUSE_MODE, val)>>)

_set_charge_slot(discharge, idx, slot) ==
    LET hr_start == SlotStartRegister(discharge, idx)
        hr_end == SlotEndRegister(discharge, idx)
    IN  IF Truthy(slot)
        THEN Return(<<WriteHoldingRegisterRequest(hr_start, int_str(strftime_HM(slot.start))),
                      WriteHoldingRegisterRequest(hr_end, int_str(strftime_HM(slot.end)))>>)
        ELSE Return(<<WriteHoldingRegisterRequest(hr_start, 0),
                      WriteHoldingRegisterRequest(hr_end, 0)>>)

set_pause_slot_start(start) ==
    IF Truthy(start)
    THEN Return(<<WriteHoldingRegisterRequest(BATTERY_PAUSE_SLOT_START,
                                              int_str(strftime_HM(start)))>>)
    ELSE Return(<<WriteHoldingRegisterRequest(BATTERY_PAUSE_SLOT_START, 0)>>)

set_pause_slot_end(end) ==
    IF Truthy(end)
    THEN Return(<<WriteHoldingRegisterRequest(BATTERY_PAUSE_SLOT_END,
                                              int_str(strftime_HM(end)))>>)
    ELSE Return(<<WriteHoldingRegisterRequest(BATTERY_PAUSE_SLOT_END, 0)>>)

set_charge_slot_1(timeslot) == _set_charge_slot(FALSE, 1, timeslot)
reset_charge_slot_1 == _set_charge_slot(FALSE, 1, None)
set_charge_slot_2(timeslot) == _set_charge_slot(FALSE, 2, timeslot)
reset_charge_slot_2 == _set_charge_slot(FALSE, 2, None)
set_discharge_slot_1(timeslot) == _set_charge_slot(TRUE, 1, timeslot)
reset_discharge_slot_1 == _set_charge_slot(TRUE, 1, None)
set_discharge_slot_2(timeslot) == _set_charge_slot(TRUE, 2, timeslot)
reset_discharge_slot_2 == _set_charge_slot(TRUE, 2, None)

\* the year written without its offset from 2000
set_system_date_time_full_year(dt) ==
    Return(<<WriteHoldingRegisterRequest(SYSTEM_TIME_YEAR, dt.year),
             WriteHoldingRegisterRequest(SYSTEM_TIME_MONTH, dt.month),
             WriteHoldingRegisterRequest(SYSTEM_TIME_DAY, dt.day),
             WriteHoldingRegisterRequest(SYSTEM_TIME_HOUR, dt.hour),
             WriteHoldingRegisterRequest(SYSTEM_TIME_MINUTE, dt.minute),
             WriteHoldingRegisterRequest(SYSTEM_TIME_SECOND, dt.second)>>)

set_system_date_time(dt) ==
    Return(<<WriteHoldingRegisterRequest(SYSTEM_TIME_YEAR, dt.year - 2000),
             WriteHoldingRegisterRequest(SYSTEM_TIME_MONTH, dt.month),
             WriteHoldingRegisterRequest(SYSTEM_TIME_DAY, dt.day),
             WriteHoldingRegisterRequest(SYSTEM_TIME_HOUR, dt.hour),
             WriteHoldingRegisterRequest(SYSTEM_TIME_MINUTE, dt.minute),
             WriteHoldingRegisterRequest(SYSTEM_TIME_SECOND, dt.second)>>)

\* dynamic mode that enables discharging
set_mode_dynamic_enabling ==
    Plus(Plus(set_discharge_mode_to_match_demand, set_battery_soc_reserve(4)),
         set_enable_discharge(True))

set_mode_dynamic ==
    Plus(Plus(set_discharge_mode_to_match_demand, set_battery_soc_reserve(4)),
         set_enable_discharge(False))

\* the default of set_mode_storage's discharge_slot_1
default_discharge_slot_1 == from_repr(1600, 700)

\* storage mode that leaves slot 2 alone when none is given
set_mode_storage_stale_slot_2(discharge_slot_1, discharge_slot_2, discharge_for_export) ==
    LET ret0 == IF discharge_for_export THEN set_discharge_mode_max_power
                ELSE set_discharge_mode_to_match_demand
        ret1 == Plus(ret0, set_battery_soc_reserve(100))
        ret2 == Plus(ret1, set_enable_discharge(True))
        ret3 == Plus(ret2, set_discharge_slot_1(discharge_slot_1))
    IN  IF Truthy(discharge_slot_2)
        THEN Plus(ret3, set_discharge_slot_2(discharge_slot_2))
        ELSE ret3

set_mode_storage(discharge_slot_1, discharge_slot_2, discharge_for_export) ==
    LET ret0 == IF discharge_for_export THEN set_discharge_mode_max_power
                ELSE set_discharge_mode_to_match_demand
        ret1 == Plus(ret0, set_battery_soc_reserve(100))
        ret2 == Plus(ret1, set_enable_discharge(True))
        ret3 == Plus(ret2, set_discharge_slot_1(discharge_slot_1))
    IN  IF Truthy(discharge_slot_2)
        THEN Plus(ret3, set_discharge_slot_2(discharge_slot_2))
        ELSE Plus(ret3, reset_discharge_slot_2)

---------------------------------------------------------------------------
(* Spec: one call per step.  Each action is one public method of the      *)
(* builder; its parameter is the set its arguments are drawn from.         *)

Self == [model |-> model, main_slave_address |-> main_slave_address]

Callers == {1, 2}
Idle == [pc |-> "idle"]

Init ==
    /\ \E m \in Models :
          /\ model = CommandBuilder_init(m).model
          /\ main_slave_address = CommandBuilder_init(m).main_slave_address
    /\ call = [op |-> "__init__"]
    /\ result = Return(<<>>)
    /\ heap = <<>>
    /\ log = {}
    /\ frames = [c \in Callers |-> Idle]

\* no method assigns to self, and Spec keeps no list objects
Frame == UNCHANGED <<model, main_slave_address, heap, log, frames>>

Call_refresh_additional_holding_registers(Bases) ==
    \E b \in Bases :
        /\ call' = [op |-> "refresh_additional_holding_registers", base_register |-> b]
        /\ result' = refresh_additional_holding_registers(Self, b)
        /\ Frame

Call_refresh_plant_data(Counts, Extras) ==
    \E complete \in BOOLEAN, nb \in Counts, mb \in Counts, extras \in Extras :
        /\ call' = [op |-> "refresh_plant_data", complete |-> complete,
                    number_batteries |-> nb, max_batteries |-> mb,
                    additional_holding_registers |-> extras]
        /\ result' = refresh_plant_data(Self, complete, nb, mb, extras)
        /\ Frame

Call_disable_charge_target ==
    /\ call' = [op |-> "disable_charge_target"]
    /\ result' = disable_charge_target
    /\ Frame

Call_set_inverter_reboot ==
    /\ call' = [op |-> "set_inverter_reboot"]
    /\ result' = set_inverter_reboot
    /\ Frame

Call_set_calibrate_battery_soc ==
    /\ call' = [op |-> "set_calibrate_battery_soc"]
    /\ result' = set_calibrate_battery_soc
    /\ Frame

Call_enable_charge ==
    /\ call' = [op |-> "enable_charge"]
    /\ result' = enable_charge
    /\ Frame

Call_disable_charge ==
    /\ call' = [op |-> "disable_charge"]
    /\ result' = disable_charge
    /\ Frame

Call_enable_discharge ==
    /\ call' = [op |-> "enable_discharge"]
    /\ result' = enable_discharge
    /\ Frame

Call_disable_discharge ==
    /\ call' = [op |-> "disable_discharge"]
    /\ result' = disable_discharge
    /\ Frame

Call_set_discharge_mode_max_power ==
    /\ call' = [op |-> "set_discharge_mode_max_power"]
    /\ result' = set_discharge_mode_max_power
    /\ Frame

Call_set_discharge_mode_to_match_demand ==
    /\ call' = [op |-> "set_discharge_mode_to_match_demand"]
    /\ result' = set_discharge_mode_to_match_demand
    /\ Frame

Call_reset_charge_slot_1 ==
    /\ call' = [op |-> "reset_charge_slot_1"]
    /\ result' = reset_charge_slot_1
    /\ Frame

Call_reset_charge_slot_2 ==
    /\ call' = [op |-> "reset_charge_slot_2"]
    /\ result' = reset_charge_slot_2
    /\ Frame

Call_reset_discharge_slot_1 ==
    /\ call' = [op |-> "reset_discharge_slot_1"]
    /\ result' = reset_discharge_slot_1
    /\ Frame

Call_reset_discharge_slot_2 ==
    /\ call' = [op |-> "reset_discharge_slot_2"]
    /\ result' = reset_discharge_slot_2
    /\ Frame

Call_set_mode_dynamic ==
    /\ call' = [op |-> "set_mode_dynamic"]
    /\ result' = set_mode_dynamic
    /\ Frame

Call_set_charge_target(V) ==
    \E v \in V :
        /\ call' = [op |-> "set_charge_target", val |-> v]
        /\ result' = set_charge_target(v)
        /\ Frame

Call_set_battery_soc_reserve(V) ==
    \E v \in V :
        /\ call' = [op |-> "set_battery_soc_reserve", val |-> v]
        /\ result' = set_battery_soc_reserve(v)
        /\ Frame

Call_set_battery_charge_limit(V) ==
    \E v \in V :
        /\ call' = [op |-> "set_battery_charge_limit", val |-> v]
        /\ result' = set_battery_charge_limit(v)
        /\ Frame

Call_set_battery_discharge_limit(V) ==
    \E v \in V :
        /\ call' = [op |-> "set_battery_discharge_limit", val |-> v]
        /\ result' = set_battery_discharge_limit(v)
        /\ Frame

Call_set_battery_power_reserve(V) ==
    \E v \in V :
        /\ call' = [op |-> "set_battery_power_reserve", val |-> v]
        /\ result' = set_battery_power_reserve(v)
        /\ Frame

Call_set_battery_pause_mode(V) ==
    \E v \in V :
        /\ call' = [op |-> "set_battery_pause_mode", val |-> v]
        /\ result' = set_battery_pause_mode(v)
        /\ Frame

Call_set_enable_charge ==
    \E enabled \in {True, False} :
        /\ call' = [op |-> "set_enable_charge", enabled |-> enabled]
        /\ result' = set_enable_charge(enabled)
        /\ Frame

Call_set_enable_charge_target ==
    \E enabled \in {True, False} :
        /\ call' = [op |-> "set_enable_charge_target", enabled |-> enabled]
        /\ result' = set_enable_charge_target(enabled)
        /\ Frame

Call_set_enable_discharge ==
    \E enabled \in {True, False} :
        /\ call' = [op |-> "set_enable_discharge", enabled |-> enabled]
        /\ result' = set_enable_discharge(enabled)
        /\ Frame

Call_set_charge_slot_1(Slots) ==
    \E timeslot \in Slots :
        /\ call' = [op |-> "set_charge_slot_1", timeslot |-> timeslot]
        /\ result' = set_charge_slot_1(timeslot)
        /\ Frame

Call_set_charge_slot_2(Slots) ==
    \E timeslot \in Slots :
        /\ call' = [op |-> "set_charge_slot_2", timeslot |-> timeslot]
        /\ result' = set_charge_slot_2(timeslot)
        /\ Frame

Call_set_discharge_slot_1(Slots) ==
    \E timeslot \in Slots :
        /\ call' = [op |-> "set_discharge_slot_1", timeslot |-> timeslot]
        /\ result' = set_discharge_slot_1(timeslot)
        /\ Frame

Call_set_discharge_slot_2(Slots) ==
    \E timeslot \in Slots :
        /\ call' = [op |-> "set_discharge_slot_2", timeslot |-> timeslot]
        /\ result' = set_discharge_slot_2(timeslot)
        /\ Frame

Call_set_shallow_charge(V) ==
    \E on_instance \in BOOLEAN, v \in V :
        /\ call' = [op |-> "set_shallow_charge", on_instance |-> on_instance, val |-> v]
        /\ result' = set_shallow_charge(on_instance, v)
        /\ Frame

Call_set_pause_slot_start(T) ==
    \E start \in T \cup {None} :
        /\ call' = [op |-> "set_pause_slot_start", time |-> start]
        /\ result' = set_pause_slot_start(start)
        /\ Frame

Call_set_pause_slot_end(T) ==
    \E end \in T \cup {None} :
        /\ call' = [op |-> "set_pause_slot_end", time |-> end]
        /\ result' = set_pause_slot_end(end)
        /\ Frame

Call_set_system_date_time(D) ==
    \E dt \in D :
        /\ call' = [op |-> "set_system_date_time", dt |-> dt]
        /\ result' = set_system_date_time(dt)
        /\ Frame

\* slot1 = None is a call that leaves discharge_slot_1 to its default
Call_set_mode_storage(Slots) ==
    \E slot1 \in Slots \cup {None}, slot2 \in Slots \cup {None}, export \in BOOLEAN :
        LET discharge_slot_1 == IF slot1 = None THEN default_discharge_slot_1 ELSE slot1
        IN  /\ call' = [op |-> "set_mode_storage", slot1_given |-> slot1 # None,
                        discharge_slot_1 |-> discharge_slot_1,
                        discharge_slot_2 |-> slot2, discharge_for_export |-> export]
            /\ result' = set_mode_storage(discharge_slot_1, slot2, export)
            /\ Frame

\* every public method, with arguments from the sample sets
Next ==
    \/ Call_refresh_plant_data(0..MaxBatteries, ExtraLists)
    \/ Call_refresh_additional_holding_registers(ExtraBases)
    \/ Call_disable_charge_target
    \/ Call_set_inverter_reboot
    \/ Call_set_calibrate_battery_soc
    \/ Call_enable_charge
    \/ Call_disable_charge
    \/ Call_enable_discharge
    \/ Call_disable_discharge
    \/ Call_set_discharge_mode_max_power
    \/ Call_set_discharge_mode_to_match_demand
    \/ Call_reset_charge_slot_1
    \/ Call_reset_charge_slot_2
    \/ Call_reset_discharge_slot_1
    \/ Call_reset_discharge_slot_2
    \/ Call_set_mode_dynamic
    \/ Call_set_charge_target(ValSamples)
    \/ Call_set_battery_soc_reserve(ValSamples)
    \/ Call_set_battery_charge_limit(ValSamples)
    \/ Call_set_battery_discharge_limit(ValSamples)
    \/ Call_set_battery_power_reserve(ValSamples)
    \/ Call_set_battery_pause_mode(ValSamples)
    \/ Call_set_enable_charge
    \/ Call_set_enable_charge_target
    \/ Call_set_enable_discharge
    \/ Call_set_charge_slot_1(SlotSamples)
    \/ Call_set_charge_slot_2(SlotSamples)
    \/ Call_set_discharge_slot_1(SlotSamples)
    \/ Call_set_discharge_slot_2(SlotSamples)
    \/ Call_set_shallow_charge(ValSamples)
    \/ Call_set_pause_slot_start(TimeSamples)
    \/ Call_set_pause_slot_end(TimeSamples)
    \/ Call_set_system_date_time(DateTimeSamples)
    \/ Call_set_mode_storage(SlotSamples)

Spec == Init /\ [][Next]_vars

\* the six range-validated setters and the deprecated alias, over every value
NextSetters ==
    \/ Call_set_charge_target(Vals)
    \/ Call_set_battery_soc_reserve(Vals)
    \/ Call_set_battery_charge_limit(Vals)
    \/ Call_set_battery_discharge_limit(Vals)
    \/ Call_set_battery_power_reserve(Vals)
    \/ Call_set_battery_pause_mode(Vals)
    \/ Call_set_shallow_charge(Vals)

SpecSetters == Init /\ [][NextSetters]_vars

\* the time-slot methods
NextSlots ==
    \/ Call_set_charge_slot_1(TimeSlots)
    \/ Call_set_charge_slot_2(TimeSlots)
    \/ Call_set_discharge_slot_1(TimeSlots)
    \/ Call_set_discharge_slot_2(TimeSlots)
    \/ Call_reset_charge_slot_1
    \/ Call_reset_charge_slot_2
    \/ Call_reset_discharge_slot_1
    \/ Call_reset_discharge_slot_2
    \/ Call_set_pause_slot_start(Times)
    \/ Call_set_pause_slot_end(Times)

SpecSlots == Init /\ [][NextSlots]_vars

\* the composite modes
NextModes ==
    \/ Call_set_mode_dynamic
    \/ Call_set_mode_storage(StorageSlots)

SpecModes == Init /\ [][NextModes]_vars

\* the system clock
NextDateTime == Call_set_system_date_time(DateTimes)

SpecDateTime == Init /\ [][NextDateTime]_vars

\* the refresh planner
NextRefresh ==
    \/ Call_refresh_additional_holding_registers(ExtraBases)
    \/ Call_refresh_plant_data(0..MaxBatteries, ExtraLists)

SpecRefresh == Init /\ [][NextRefresh]_vars


---------------------------------------------------------------------------
(* SpecObj: the builder's methods as the interpreter runs them, one list   *)
(* operation per step, called by several callers at once.  A list display  *)
(* [...] makes a new list object; append and extend change the object they *)
(* are called on; a returned list stays with its caller, who is recorded   *)
(* in log with the call that returned it.                                  *)

\* list objects a behaviour may allocate
MaxObjects == 2

\* the arguments the callers use
ObjSlots1 == {None}
ObjSlots2 == {None, [start |-> [hour |-> 23, minute |-> 5], end |-> [hour |-> 0, minute |-> 0]]}
ObjBatteries == {1}
ObjCeilings == {2}
ObjExtras == {None, [items |-> <<300, 180>>]}
ObjTargets == {3, 80}

\* a list display that hands out one shared list object
ListLiteral_shared(h, items) ==
    IF Len(h) = 0 THEN [heap |-> <<items>>, ref |-> 1] ELSE [heap |-> h, ref |-> 1]

\* [items...]: a new list object holding items
ListLiteral(h, items) == [heap |-> Append(h, items), ref |-> Len(h) + 1]

\* heap[ref].extend(items), heap[ref].append(item)
Extend(h, ref, items) == [h EXCEPT ![ref] = @ \o items]

ObjFrame == UNCHANGED <<model, main_slave_address, call, result>>

\* the call of frames[c] returns its list
Returns(c) ==
    /\ log' = log \cup {[call |-> frames[c].call, raised |-> "no", ref |-> frames[c].ref]}
    /\ frames' = [frames EXCEPT ![c] = Idle]

\* the call of frames[c] extends its list by what r returned, or ends as r raised
Extends(c, r, pc) ==
    IF r.raised # "no"
    THEN /\ log' = log \cup {[call |-> frames[c].call, raised |-> r.raised, ref |-> 0]}
         /\ frames' = [frames EXCEPT ![c] = Idle]
         /\ heap' = heap
    ELSE /\ heap' = Extend(heap, frames[c].ref, r.requests)
         /\ frames' = [frames EXCEPT ![c].pc = pc]
         /\ log' = log

\* a method that is one expression: it raises, or returns a new list
Evaluates(cl, r) ==
    IF r.raised # "no"
    THEN /\ log' = log \cup {[call |-> cl, raised |-> r.raised, ref |-> 0]}
         /\ heap' = heap
    ELSE LET lit == ListLiteral(heap, r.requests)
         IN  /\ heap' = lit.heap
             /\ log' = log \cup {[call |-> cl, raised |-> "no", ref |-> lit.ref]}

\* raise ValueError(...), or return [WriteHoldingRegisterRequest(...)]
Obj_set_charge_target(c) ==
    /\ frames[c] = Idle
    /\ Len(heap) < MaxObjects
    /\ \E v \in ObjTargets :
           Evaluates([op |-> "set_charge_target", val |-> v], set_charge_target(v))
    /\ frames' = frames
    /\ ObjFrame

\* return a() + b(4) + c(False): every operand and the sum are new lists
Obj_set_mode_dynamic(c) ==
    /\ frames[c] = Idle
    /\ Len(heap) < MaxObjects
    /\ Evaluates([op |-> "set_mode_dynamic"], set_mode_dynamic)
    /\ frames' = frames
    /\ ObjFrame

\* ret = set_discharge_mode_max_power() or set_discharge_mode_to_match_demand()
Obj_storage_mode(c) ==
    \E slot1 \in ObjSlots1, slot2 \in ObjSlots2, export \in BOOLEAN :
        LET r == IF export THEN set_discharge_mode_max_power
                 ELSE set_discharge_mode_to_match_demand
            lit == ListLiteral(heap, r.requests)
        IN  /\ frames[c] = Idle
            /\ Len(heap) < MaxObjects
            /\ heap' = lit.heap
            /\ frames' = [frames EXCEPT ![c] =
                   [pc |-> "reserve", ref |-> lit.ref,
                    call |-> [op |-> "set_mode_storage", slot1_given |-> slot1 # None,
                              discharge_slot_1 |-> IF slot1 = None
                                                   THEN default_discharge_slot_1
                                                   ELSE slot1,
                              discharge_slot_2 |-> slot2,
                              discharge_for_export |-> export]]]
            /\ log' = log
            /\ ObjFrame

\* ret.extend(CommandBuilder.set_battery_soc_reserve(100))
Obj_storage_reserve(c) ==
    /\ frames[c].pc = "reserve"
    /\ Extends(c, set_battery_soc_reserve(100), "enable")
    /\ ObjFrame

\* ret.extend(CommandBuilder.set_enable_discharge(True))
Obj_storage_enable(c) ==
    /\ frames[c].pc = "enable"
    /\ Extends(c, set_enable_discharge(True), "slot1")
    /\ ObjFrame

\* ret.extend(CommandBuilder.set_discharge_slot_1(discharge_slot_1))
Obj_storage_slot1(c) ==
    /\ frames[c].pc = "slot1"
    /\ Extends(c, set_discharge_slot_1(frames[c].call.discharge_slot_1), "slot2")
    /\ ObjFrame

\* if discharge_slot_2: ret.extend(set_discharge_slot_2(...))
\* else: ret.extend(reset_discharge_slot_2())
Obj_storage_slot2(c) ==
    /\ frames[c].pc = "slot2"
    /\ IF Truthy(frames[c].call.discharge_slot_2)
       THEN Extends(c, set_discharge_slot_2(frames[c].call.discharge_slot_2), "return")
       ELSE Extends(c, reset_discharge_slot_2, "return")
    /\ ObjFrame

\* return ret
Obj_storage_return(c) ==
    /\ frames[c].pc = "return"
    /\ Returns(c)
    /\ heap' = heap
    /\ ObjFrame

\* requests = [ReadInputRegistersRequest(self.main_slave_address, 0, 60)]
Obj_refresh_first(c) ==
    \E complete \in BOOLEAN, nb \in ObjBatteries, mb \in ObjCeilings, extras \in ObjExtras :
        LET lit == ListLiteral(heap, <<ReadInputRegistersRequest(main_slave_address, 0, 60)>>)
        IN  /\ frames[c] = Idle
            /\ Len(heap) < MaxObjects
            /\ heap' = lit.heap
            /\ frames' = [frames EXCEPT ![c] =
                   [pc |-> IF complete THEN "rpd_complete" ELSE "rpd_battery",
                    ref |-> lit.ref, number_batteries |-> nb, i |-> 0,
                    call |-> [op |-> "refresh_plant_data", complete |-> complete,
                              number_batteries |-> nb, max_batteries |-> mb,
                              additional_holding_registers |-> extras]]]
            /\ log' = log
            /\ ObjFrame

\* if complete: the three requests.append(...) of the further blocks, one per step
Obj_refresh_complete(c) ==
    /\ frames[c].pc = "rpd_complete"
    /\ heap' = Extend(heap, frames[c].ref, <<CompleteReads(Self)[frames[c].i + 1]>>)
    /\ frames' = [frames EXCEPT ![c].i = IF frames[c].i = 2 THEN 0 ELSE @ + 1,
                                ![c].pc = IF frames[c].i = 2 THEN "rpd_force" ELSE @]
    /\ log' = log
    /\ ObjFrame

\* if self.model not in [None, Model.ALL_IN_ONE]: number_batteries = max_batteries
Obj_refresh_force(c) ==
    /\ frames[c].pc = "rpd_force"
    /\ frames' = [frames EXCEPT
           ![c].number_batteries =
               EffectiveBatteries(Self, TRUE, @, frames[c].call.max_batteries),
           ![c].pc = "rpd_battery"]
    /\ UNCHANGED <<heap, log>>
    /\ ObjFrame

\* for i in range(number_batteries): requests.append(...)
Obj_refresh_battery(c) ==
    /\ frames[c].pc = "rpd_battery"
    /\ IF frames[c].i < frames[c].number_batteries
       THEN /\ heap' = Extend(heap, frames[c].ref,
                              <<BatteryReads(frames[c].i + 1)[frames[c].i + 1]>>)
            /\ frames' = [frames EXCEPT ![c].i = @ + 1]
       ELSE /\ heap' = heap
            /\ frames' = [frames EXCEPT ![c].i = 0, ![c].pc = "rpd_extra"]
    /\ log' = log
    /\ ObjFrame

\* if additional_holding_registers: for hr in ...: requests.extend(...)
Obj_refresh_extra(c) ==
    /\ frames[c].pc = "rpd_extra"
    /\ LET hrs == frames[c].call.additional_holding_registers
       IN  IF TruthyList(hrs) /\ frames[c].i < Len(hrs.items)
           THEN /\ heap' = Extend(heap, frames[c].ref,
                        refresh_additional_holding_registers(
                            Self, hrs.items[frames[c].i + 1]).requests)
                /\ frames' = [frames EXCEPT ![c].i = @ + 1]
           ELSE /\ heap' = heap
                /\ frames' = [frames EXCEPT ![c].pc = "rpd_return"]
    /\ log' = log
    /\ ObjFrame

\* return requests
Obj_refresh_return(c) ==
    /\ frames[c].pc = "rpd_return"
    /\ Returns(c)
    /\ heap' = heap
    /\ ObjFrame

NextObj ==
    \E c \in Callers :
        \/ Obj_set_charge_target(c)
        \/ Obj_set_mode_dynamic(c)
        \/ Obj_storage_mode(c)
        \/ Obj_storage_reserve(c)
        \/ Obj_storage_enable(c)
        \/ Obj_storage_slot1(c)
        \/ Obj_storage_slot2(c)
        \/ Obj_storage_return(c)
        \/ Obj_refresh_first(c)
        \/ Obj_refresh_complete(c)
        \/ Obj_refresh_force(c)
        \/ Obj_refresh_battery(c)
        \/ Obj_refresh_extra(c)
        \/ Obj_refresh_return(c)

SpecObj == Init /\ [][NextObj]_vars

---------------------------------------------------------------------------
(* Properties.  They are stated over the last call and what it gave, with  *)
(* register numbers and encodings written out rather than taken from the   *)
(* builder's operators.                                                    *)

Write(register, value) == [type |-> "Write", register |-> register, value |-> value]
ReadInput(slave, base) ==
    [type |-> "ReadInput", slave_address |-> slave, base_register |-> base,
     register_count |-> 60]
ReadHolding(slave, base) ==
    [type |-> "ReadHolding", slave_address |-> slave, base_register |-> base,
     register_count |-> 60]
HHMM(t) == t.hour * 100 + t.minute
Returned(requests) == result.raised = "no" /\ result.requests = requests
Rejected == result.raised = "ValueError" /\ result.requests = <<>>

\* the validated setters: name, inclusive range, register
RangeSetters ==
    {[op |-> "set_charge_target", lo |-> 4, hi |-> 100, register |-> 116],
     [op |-> "set_battery_soc_reserve", lo |-> 4, hi |-> 100, register |-> 110],
     [op |-> "set_battery_charge_limit", lo |-> 0, hi |-> 50, register |-> 111],
     [op |-> "set_battery_discharge_limit", lo |-> 0, hi |-> 50, register |-> 112],
     [op |-> "set_battery_power_reserve", lo |-> 4, hi |-> 100, register |-> 114],
     [op |-> "set_battery_pause_mode", lo |-> 0, hi |-> 3, register |-> 318]}

\* C1: each range-validated setter returns exactly one write of the input value to
\* its own register when the value is inside the inclusive range, and raises the
\* invalid-parameter error, returning no request, when it is outside.
C1_RangeValidatedSetters ==
    \A s \in RangeSetters :
        call.op = s.op =>
            IF s.lo <= call.val /\ call.val <= s.hi
            THEN Returned(<<Write(s.register, call.val)>>)
            ELSE Rejected

\* C1 witness: the pause mode one above its range is rejected
C1_Witness ==
    /\ call.op = "set_battery_pause_mode"
    /\ call.val = 4
    /\ result.raised = "ValueError"

\* C2: set_mode_storage returns seven writes: power mode, reserve 100, enable
\* discharge, slot 1 start and end, slot 2 start and end (0 and 0 when slot 2 is
\* omitted); with slot 1 left to its default the slot-1 values are 1600 and 700.
C2_StorageMode ==
    call.op = "set_mode_storage" =>
        LET s1 == call.discharge_slot_1
            s2 == call.discharge_slot_2
        IN  /\ Returned(<<Write(27, IF call.discharge_for_export THEN 0 ELSE 1),
                          Write(110, 100),
                          Write(59, 1),
                          Write(56, HHMM(s1.start)),
                          Write(57, HHMM(s1.end)),
                          Write(44, IF s2 = None THEN 0 ELSE HHMM(s2.start)),
                          Write(45, IF s2 = None THEN 0 ELSE HHMM(s2.end))>>)
            /\ ~call.slot1_given =>
                   /\ result.requests[4].value = 1600
                   /\ result.requests[5].value = 700

\* C2 witness: exporting storage mode with the default slot 1 and no slot 2
C2_Witness ==
    /\ call.op = "set_mode_storage"
    /\ ~call.slot1_given
    /\ call.discharge_slot_2 = None
    /\ call.discharge_for_export
    /\ Len(result.requests) = 7
    /\ result.requests[6].value = 0

\* C3: set_mode_dynamic never raises and returns the same three writes whenever it
\* is called: power mode 1, reserve 4, discharge disabled.
C3_DynamicMode ==
    call.op = "set_mode_dynamic" =>
        Returned(<<Write(27, 1), Write(110, 4), Write(59, 0)>>)

\* C3 witness: set_mode_dynamic has returned
C3_Witness ==
    /\ call.op = "set_mode_dynamic"
    /\ result.raised = "no"
    /\ Len(result.requests) = 3

\* the per-battery reads of a plan: input-register reads at base 60
BatteryReadPositions(requests) ==
    {k \in 1..Len(requests) :
        requests[k].type = "ReadInput" /\ requests[k].base_register = 60}

\* the length of a list argument that may be None
LenOrZero(x) == IF x = None THEN 0 ELSE Len(x.items)

\* C4: refresh_plant_data returns, in order, the primary input read at base 0; if
\* complete, holding 0, holding 60 and input 120 from the primary slave address; one
\* input read at base 60 per battery index i = 0..n-1 at slave address 0x32 + i; one
\* holding read from the primary slave address per extra base register, in the
\* caller's order.  The length is 1 + (3 if complete) + n + len(extras), and n is
\* number_batteries when complete is false.
C4_RefreshPlan ==
    call.op = "refresh_plant_data" =>
        LET reqs == result.requests
            c == IF call.complete THEN 3 ELSE 0
            e == LenOrZero(call.additional_holding_registers)
            n == Len(reqs) - 1 - c - e
        IN  /\ result.raised = "no"
            /\ n >= 0
            /\ ~call.complete => n = call.number_batteries
            /\ reqs[1] = ReadInput(main_slave_address, 0)
            /\ call.complete =>
                   /\ reqs[2] = ReadHolding(main_slave_address, 0)
                   /\ reqs[3] = ReadHolding(main_slave_address, 60)
                   /\ reqs[4] = ReadInput(main_slave_address, 120)
            /\ \A i \in 0..(n - 1) : reqs[1 + c + i + 1] = ReadInput(50 + i, 60)
            /\ \A j \in 1..e :
                   reqs[1 + c + n + j] =
                       ReadHolding(main_slave_address,
                                   call.additional_holding_registers.items[j])

\* C4 witness: a minimal refresh of two batteries is the primary read and two
\* battery reads
C4_Witness ==
    /\ call.op = "refresh_plant_data"
    /\ ~call.complete
    /\ call.number_batteries = 2
    /\ call.additional_holding_registers = None
    /\ Len(result.requests) = 3

\* C5 as stated: a complete refresh reads max_batteries batteries for every model
\* other than all-in-one, the unspecified model included; otherwise number_batteries.
C5_Original ==
    call.op = "refresh_plant_data" =>
        Cardinality(BatteryReadPositions(result.requests)) =
            IF call.complete /\ model # ALL_IN_ONE
            THEN call.max_batteries
            ELSE call.number_batteries

\* C5 amended: a complete refresh reads max_batteries batteries for every model that
\* is neither unspecified nor all-in-one, whatever number_batteries is; for the
\* unspecified and the all-in-one model, and for every model when complete is false,
\* it reads number_batteries batteries.
C5_BatteryCount ==
    call.op = "refresh_plant_data" =>
        Cardinality(BatteryReadPositions(result.requests)) =
            IF call.complete /\ model \notin {None, ALL_IN_ONE}
            THEN call.max_batteries
            ELSE call.number_batteries

\* C5 witness: a complete refresh on a builder without a model keeps the requested
\* count below the ceiling
C5_Witness ==
    /\ call.op = "refresh_plant_data"
    /\ model = None
    /\ call.complete
    /\ call.number_batteries = 1
    /\ call.max_batteries = 3
    /\ Cardinality(BatteryReadPositions(result.requests)) = 1

\* the slot methods and their register pairs
SlotSetters ==
    {[op |-> "set_charge_slot_1", reset |-> "reset_charge_slot_1", first |-> 94, second |-> 95],
     [op |-> "set_charge_slot_2", reset |-> "reset_charge_slot_2", first |-> 31, second |-> 32],
     [op |-> "set_discharge_slot_1", reset |-> "reset_discharge_slot_1", first |-> 56, second |-> 57],
     [op |-> "set_discharge_slot_2", reset |-> "reset_discharge_slot_2", first |-> 44, second |-> 45]}

\* C6: each set_*_slot_* returns two writes, start register then end register, of
\* hour*100 + minute of the slot's start and end, to its own pair; each reset_*
\* returns two writes of 0 to the same pair; set_pause_slot_start and _end return
\* one write to 319 and 320, of hour*100 + minute, or of 0 when the time is absent.
C6_SlotEncoding ==
    /\ \A s \in SlotSetters :
          /\ call.op = s.op =>
                 Returned(<<Write(s.first, HHMM(call.timeslot.start)),
                            Write(s.second, HHMM(call.timeslot.end))>>)
          /\ call.op = s.reset =>
                 Returned(<<Write(s.first, 0), Write(s.second, 0)>>)
    /\ call.op = "set_pause_slot_start" =>
           Returned(<<Write(319, IF call.time = None THEN 0 ELSE HHMM(call.time))>>)
    /\ call.op = "set_pause_slot_end" =>
           Returned(<<Write(320, IF call.time = None THEN 0 ELSE HHMM(call.time))>>)

\* C6 witness: an overnight discharge slot 16:05 to 07:00
C6_Witness ==
    /\ call.op = "set_discharge_slot_1"
    /\ call.timeslot = [start |-> [hour |-> 16, minute |-> 5],
                        end |-> [hour |-> 7, minute |-> 0]]
    /\ result.requests = <<Write(56, 1605), Write(57, 700)>>

\* C7 as stated: the register of every write and the base register of every read
\* is an address RegisterMap declares.
C7_Original ==
    \A k \in 1..Len(result.requests) :
        LET q == result.requests[k]
        IN  IF q.type = "Write" THEN q.register \in RegisterMap
            ELSE q.base_register \in RegisterMap

\* the base registers the caller of a refresh supplied
SuppliedBases ==
    IF call.op = "refresh_additional_holding_registers" THEN {call.base_register}
    ELSE IF call.op = "refresh_plant_data"
            /\ call.additional_holding_registers # None
         THEN {call.additional_holding_registers.items[j] :
                  j \in 1..Len(call.additional_holding_registers.items)}
         ELSE {}

\* C7 amended: the register of every write request is an address RegisterMap
\* declares; the base register of every read request is 0, 60 or 120, or a base
\* register the caller supplied, whether RegisterMap declares it or not.
C7_Addresses ==
    \A k \in 1..Len(result.requests) :
        LET q == result.requests[k]
        IN  IF q.type = "Write" THEN q.register \in RegisterMap
            ELSE q.base_register \in {0, 60, 120} \cup SuppliedBases

\* C7 witness: a refresh plan whose first read is at base register 0, which
\* RegisterMap does not declare
C7_Witness ==
    /\ call.op = "refresh_plant_data"
    /\ result.requests[1].base_register = 0
    /\ 0 \notin RegisterMap

\* C8: set_system_date_time returns six writes in the order year - 2000, month,
\* day, hour, minute, second, to registers 35..40.
C8_SystemDateTime ==
    call.op = "set_system_date_time" =>
        Returned(<<Write(35, call.dt.year - 2000), Write(36, call.dt.month),
                   Write(37, call.dt.day), Write(38, call.dt.hour),
                   Write(39, call.dt.minute), Write(40, call.dt.second)>>)

\* C8 witness: 2024-03-15 09:30:45 gives 24, 3, 15, 9, 30, 45
C8_Witness ==
    /\ call.op = "set_system_date_time"
    /\ call.dt = [year |-> 2024, month |-> 3, day |-> 15,
                  hour |-> 9, minute |-> 30, second |-> 45]
    /\ result.requests = <<Write(35, 24), Write(36, 3), Write(37, 15),
                           Write(38, 9), Write(39, 30), Write(40, 45)>>

\* what the call cl gives on this builder, by the method's definition
Gives(cl) ==
    IF cl.op = "set_charge_target" THEN set_charge_target(cl.val)
    ELSE IF cl.op = "set_mode_dynamic" THEN set_mode_dynamic
    ELSE IF cl.op = "set_mode_storage"
         THEN set_mode_storage(cl.discharge_slot_1, cl.discharge_slot_2,
                               cl.discharge_for_export)
    ELSE refresh_plant_data(Self, cl.complete, cl.number_batteries, cl.max_batteries,
                            cl.additional_holding_registers)

\* every finished call gave what its arguments and the configuration decide, and
\* equal calls gave equal sequences or the same error
C9_Independent ==
    /\ main_slave_address = CommandBuilder_init(model).main_slave_address
    /\ \A e \in log :
          /\ e.raised = Gives(e.call).raised
          /\ e.raised = "no" => heap[e.ref] = Gives(e.call).requests
    /\ \A e1, e2 \in log :
          e1.call = e2.call =>
              /\ e1.raised = e2.raised
              /\ e1.raised = "no" => heap[e1.ref] = heap[e2.ref]

\* no step changes the configuration or a list some call has returned
C9_Unchanged ==
    /\ model' = model
    /\ main_slave_address' = main_slave_address
    /\ \A e \in log : e.raised = "no" => heap'[e.ref] = heap[e.ref]

\* C9: through every interleaving of calls from several callers, returning or
\* rejected, the builder's model and primary slave address stay as constructed, a
\* call's result is decided by its arguments and that configuration alone, equal
\* calls give equal sequences (or the same error), and a returned sequence is not
\* changed by a later call.
C9_Immutable == [](C9_Independent) /\ [][C9_Unchanged]_vars

\* C9 witness: the same storage-mode call has returned twice, as two lists, and a
\* call has been rejected in the same run
C9_Witness ==
    /\ \E e1, e2 \in log :
          /\ e1.call.op = "set_mode_storage"
          /\ e1.call = e2.call
          /\ e1.ref # e2.ref
          /\ e1.ref # 0 /\ e2.ref # 0
          /\ Len(heap[e2.ref]) = 7
    /\ \E e \in log : e.raised = "ValueError"

\* C10: the primary slave address is 0x11 for an unspecified or all-in-one model
\* and 0x32 for every other; battery reads go to 0x32 + index whatever the model,
\* so with another model battery 0 is read at the primary slave address, and with
\* an unspecified or all-in-one model no battery is.
C10_SlaveAddresses ==
    /\ main_slave_address = (IF model \in {None, ALL_IN_ONE} THEN 17 ELSE 50)
    /\ call.op = "refresh_plant_data" =>
           LET reqs == result.requests
               B == BatteryReadPositions(reqs)
               first == CHOOSE k \in B : \A l \in B : k <= l
           IN  /\ \A k \in B : reqs[k].slave_address = 50 + (k - first)
               /\ (model \notin {None, ALL_IN_ONE} /\ B # {}) =>
                      reqs[first].slave_address = main_slave_address
               /\ model \in {None, ALL_IN_ONE} =>
                      \A k \in B : reqs[k].slave_address # main_slave_address

\* C10 witness: a hybrid builder reads battery 0 at its primary slave address
C10_Witness ==
    /\ call.op = "refresh_plant_data"
    /\ model = HYBRID
    /\ main_slave_address = 50
    /\ \E k \in BatteryReadPositions(result.requests) :
           result.requests[k].slave_address = main_slave_address

====
